---- MODULE Spec2Model ----
(***************************************************************************)
(* A model of src/lib/InAppUpdatesNative.ts: the update-decision engine    *)
(* (checkNeedsUpdate, startUpdate, installUpdate) and the event            *)
(* distribution core (the two listener registries, the status-stream       *)
(* toggle and the two incoming-event handlers).                            *)
(*                                                                         *)
(* JavaScript values are tagged records ([t |-> "string", ...]); plain     *)
(* objects are records without a "t" field.  The native module             *)
(* (SpInAppUpdates) is the environment: its promises settle by the         *)
(* ProviderResolves / ProviderRejects actions and its event emitter fires  *)
(* the two onIncoming... handlers.                                         *)
(***************************************************************************)
EXTENDS Integers, Sequences, FiniteSets

VARIABLES
    calls,                  \* call id -> one invocation of checkNeedsUpdate / startUpdate
    statusUpdateListeners,  \* this.statusUpdateListeners: the registered callbacks
    resultListeners,        \* this.resultListeners: the registered callbacks
    streamEnabled,          \* the value last passed to SpInAppUpdates.setStatusUpdateSubscription
    last,                   \* the last synchronous operation or incoming event, with what it did
    history                 \* what the calls made so far were (read by no operation)

vars == <<calls, statusUpdateListeners, resultListeners, streamEnabled, last, history>>

-----------------------------------------------------------------------------
(* Bounds *)

\* Number of call slots (invocations of checkNeedsUpdate / startUpdate).
MaxCalls == 2
\* Number of distinct listener callbacks.
NumCallbacks == 2
\* The add calls counted per callback (the count stops there).
MaxAdds == 2

CallIds == 1..MaxCalls
Callbacks == 1..NumCallbacks

-----------------------------------------------------------------------------
(* JavaScript values *)

Undefined == [t |-> "undefined"]
Null == [t |-> "null"]
NaN == [t |-> "NaN"]
Num(n) == [t |-> "number", n |-> n]
Str(chars) == [t |-> "string", chars |-> chars]
Fn(name) == [t |-> "function", name |-> name]
EmptyString == Str(<<>>)
EmptyObject == [k \in {} |-> Undefined]

IsTagged(v) == "t" \in DOMAIN v
IsNullish(v) == IsTagged(v) /\ v.t \in {"undefined", "null"}

\* JavaScript ToBoolean.
Truthy(v) ==
    IF ~IsTagged(v) THEN TRUE
    ELSE CASE v.t \in {"undefined", "null", "NaN"} -> FALSE
           [] v.t = "string" -> v.chars # <<>>
           [] v.t = "number" -> v.n # 0
           [] OTHER -> TRUE

\* obj.name of a plain object (undefined when the property is absent).
Prop(obj, name) == IF ~IsTagged(obj) /\ name \in DOMAIN obj THEN obj[name] ELSE Undefined

DigitChars == <<"0", "1", "2", "3", "4", "5", "6", "7", "8", "9">>
IsDigit(c) == \E i \in DOMAIN DigitChars : DigitChars[i] = c
DigitVal(c) == (CHOOSE i \in DOMAIN DigitChars : DigitChars[i] = c) - 1
IsWhiteSpace(c) == c = " "

RECURSIVE NatChars(_)
NatChars(n) == IF n < 10 THEN <<DigitChars[n + 1]>>
               ELSE NatChars(n \div 10) \o <<DigitChars[(n % 10) + 1]>>

\* JavaScript ToString of the values parseInt can be handed.
JsToString(v) ==
    CASE v.t = "string" -> v.chars
      [] v.t = "number" -> IF v.n < 0 THEN <<"-">> \o NatChars(-v.n) ELSE NatChars(v.n)
      [] v.t = "undefined" -> <<"u", "n", "d", "e", "f", "i", "n", "e", "d">>
      [] v.t = "null" -> <<"n", "u", "l", "l">>
      [] OTHER -> <<"N", "a", "N">>

RECURSIVE TrimLeft(_)
TrimLeft(s) == IF s # <<>> /\ IsWhiteSpace(Head(s)) THEN TrimLeft(Tail(s)) ELSE s

RECURSIVE DigitPrefix(_)
DigitPrefix(s) == IF s # <<>> /\ IsDigit(Head(s)) THEN <<Head(s)>> \o DigitPrefix(Tail(s)) ELSE <<>>

RECURSIVE DigitsValue(_)
DigitsValue(s) == IF s = <<>> THEN 0
                  ELSE 10 * DigitsValue(SubSeq(s, 1, Len(s) - 1)) + DigitVal(s[Len(s)])

\* A mutant of parseInt: the value is handed on as it came.
parseIntSkipped(v) == v

\* parseInt(v, 10): leading white space is skipped, one sign is read, then the
\* longest prefix of decimal digits; NaN when that prefix is empty.
parseInt(v) ==
    LET s == TrimLeft(JsToString(v))
        signed == s # <<>> /\ Head(s) \in {"-", "+"}
        body == IF signed THEN Tail(s) ELSE s
        z == DigitPrefix(body)
    IN  IF z = <<>> THEN NaN
        ELSE Num((IF signed /\ Head(s) = "-" THEN -1 ELSE 1) * DigitsValue(z))

-----------------------------------------------------------------------------
(* The native module's constants *)

Native(key) == [t |-> "native", key |-> key]

UPDATE_STATUS ==
    [AVAILABLE |-> Native("UPDATE_AVAILABLE"),
     UNAVAILABLE |-> Native("UPDATE_NOT_AVAILABLE"),
     UNKNOWN |-> Native("UPDATE_UNKNOWN"),
     DEVELOPER_TRIGGERED |-> Native("DEVELOPER_TRIGGERED_UPDATE_IN_PROGRESS"),
     UPDATE_CANCELED |-> Native("UPDATE_CANCELED"),
     UPDATE_DOWNLOADED |-> Native("UPDATE_DOWNLOADED"),
     UPDATE_DOWNLOADING |-> Native("UPDATE_DOWNLOADING"),
     UPDATE_FAILED |-> Native("UPDATE_FAILED"),
     UPDATE_INSTALLED |-> Native("UPDATE_INSTALLED"),
     UPDATE_INSTALLING |-> Native("UPDATE_INSTALLING"),
     UPDATE_PENDING |-> Native("UPDATE_PENDING")]

UPDATE_TYPE ==
    [IMMEDIATE |-> Native("APP_UPDATE_IMMEDIATE"),
     FLEXIBLE |-> Native("APP_UPDATE_FLEXIBLE")]

UpdateStatusValues == {UPDATE_STATUS[k] : k \in DOMAIN UPDATE_STATUS}
UpdateTypeValues == {UPDATE_TYPE[k] : k \in DOMAIN UPDATE_TYPE}

-----------------------------------------------------------------------------
(* Version strings, converters and comparators *)

\* The components of a dotted string: "1.2.0" -> <<"1", "2", "0">> (as char sequences).
RECURSIVE SplitDots(_)
SplitDots(s) ==
    IF s = <<>> THEN <<<<>>>>
    ELSE LET rest == SplitDots(Tail(s))
         IN  IF Head(s) = "." THEN <<<<>>>> \o rest
             ELSE <<<<Head(s)>> \o Head(rest)>> \o Tail(rest)

IsSemver(v) ==
    /\ IsTagged(v)
    /\ v.t = "string"
    /\ \A i \in DOMAIN SplitDots(v.chars) :
          LET part == SplitDots(v.chars)[i]
          IN  part # <<>> /\ \A j \in DOMAIN part : IsDigit(part[j])

SemverParts(v) == [i \in DOMAIN SplitDots(v.chars) |-> DigitsValue(SplitDots(v.chars)[i])]

PartAt(parts, i) == IF i \in DOMAIN parts THEN parts[i] ELSE 0

\* Component-wise, left to right, a missing trailing component counting as 0.
RECURSIVE ComparePartsFrom(_, _, _)
ComparePartsFrom(a, b, i) ==
    IF i > Len(a) /\ i > Len(b) THEN 0
    ELSE IF PartAt(a, i) > PartAt(b, i) THEN 1
    ELSE IF PartAt(a, i) < PartAt(b, i) THEN -1
    ELSE ComparePartsFrom(a, b, i + 1)

Returned(v) == [threw |-> FALSE, value |-> v]
Thrown(e) == [threw |-> TRUE, value |-> e]

\* The default comparator of ./utils: ordering of two semantic version strings,
\* a parsing error on anything else.
compareVersions(a, b) ==
    IF IsSemver(a) /\ IsSemver(b)
    THEN Returned(Num(ComparePartsFrom(SemverParts(a), SemverParts(b), 1)))
    ELSE Thrown([t |-> "parseError", of |-> <<a, b>>])

\* The caller's comparators the model draws from.
ComparatorNames == {"byMajor", "alwaysNewer", "alwaysSame", "alwaysOlder", "notANumber"}

ApplyComparator(f, a, b) ==
    CASE f.name = "byMajor" ->
            IF IsSemver(a) /\ IsSemver(b)
            THEN Returned(Num(SemverParts(a)[1] - SemverParts(b)[1]))
            ELSE Returned(NaN)
      [] f.name = "alwaysNewer" -> Returned(Num(1))
      [] f.name = "alwaysSame" -> Returned(Num(0))
      [] f.name = "alwaysOlder" -> Returned(Num(-1))
      [] OTHER -> Returned(NaN)

\* The caller's converters the model draws from.
ConverterNames == {"identity", "codeToSemver", "toEmpty"}

ApplyConverter(f, v) ==
    CASE f.name = "identity" -> v
      [] f.name = "codeToSemver" ->
            IF IsTagged(v) /\ v.t = "number" /\ v.n >= 0
            THEN Str(NatChars(v.n) \o <<".", "0", ".", "0">>)
            ELSE EmptyString
      [] OTHER -> EmptyString

\* The inputs of checkNeedsUpdate and startUpdate.
CurVersionInputs ==
    {Undefined, EmptyString,
     Str(<<"1", ".", "0", ".", "0">>), Str(<<"1", ".", "2">>), Str(<<"2", ".", "0", ".", "0">>)}
ConverterInputs == {Undefined} \cup {Fn(n) : n \in ConverterNames}
ComparatorInputs == {Undefined} \cup {Fn(n) : n \in ComparatorNames}
CheckOptionsInputs ==
    {Undefined} \cup
    [curVersion : CurVersionInputs,
     toSemverConverter : ConverterInputs,
     customVersionComparator : ComparatorInputs]
StartOptionsInputs ==
    {Undefined} \cup [updateType : UpdateTypeValues \cup {Undefined, Native("APP_UPDATE_OTHER")}]

\* What the provider can answer.
VersionCodeInputs ==
    {Str(<<"2", ".", "0", ".", "0">>), Str(<<"1", ".", "0", ".", "0">>),
     Str(<<"1", ".", "2", ".", "0">>), Num(2), Num(1), Num(0)}
AvailabilityInfoInputs ==
    {Null} \cup [updateAvailability : UpdateStatusValues, versionCode : VersionCodeInputs]
ProviderErrorInputs == {[t |-> "providerError", code |-> c] : c \in {"E_PLAY_STORE", "E_NETWORK"}}

-----------------------------------------------------------------------------
(* InAppUpdatesBase.throwError *)

\* throwError(err, scope) throws an error that carries the scope (the name of the
\* operation it was raised in) and what it was raised for.
throwError(err, scope) == [t |-> "error", scope |-> scope, cause |-> err]

Message(text, about) == [t |-> "message", text |-> text, about |-> about]

-----------------------------------------------------------------------------
(* checkNeedsUpdate *)

\* One invocation: the operation, the promise's state ("threw": the call threw
\* before it returned a promise), what it was called with, what the provider
\* answered, how it ended, and the calls it made to the provider, the converter
\* and the comparators.
IdleCall ==
    [op |-> "none", state |-> "idle", options |-> Undefined, response |-> Undefined,
     outcome |-> Undefined, providerLog |-> <<>>, converterLog |-> <<>>,
     comparatorLog |-> <<>>, settled |-> 0]

ProviderCall(fn, args) == [fn |-> fn, args |-> args]

\* A mutant of MissingCurVersion: the check of curVersion is left out.
MissingCurVersionUnchecked(curVersion) == FALSE

\* if (!curVersion)
MissingCurVersion(curVersion) == ~Truthy(curVersion)

\* A mutant of StatusIsAvailable: an update in progress counts as available too.
StatusIsAvailableOrTriggered(updateAvailability) ==
    updateAvailability \in {UPDATE_STATUS.AVAILABLE, UPDATE_STATUS.DEVELOPER_TRIGGERED}

\* updateAvailability === UPDATE_STATUS.AVAILABLE
StatusIsAvailable(updateAvailability) == updateAvailability = UPDATE_STATUS.AVAILABLE

\* A mutant of ConversionFailed: the converter's result is not checked.
ConversionUnchecked(newAppV) == FALSE

\* if (!newAppV)
ConversionFailed(newAppV) == ~Truthy(newAppV)

\* A mutant of IsRemoteNewer: an equal version counts as newer.
IsRemoteNewerOrEqual(vCompRes) == vCompRes.t = "number" /\ vCompRes.n >= 0

\* vCompRes > 0 (false for NaN)
IsRemoteNewer(vCompRes) == vCompRes.t = "number" /\ vCompRes.n > 0

\* { ...inAppUpdateInfo }
SpreadCopy(obj) == IF IsTagged(obj) THEN EmptyObject ELSE obj

UpdateRecord(newAppV, inAppUpdateInfo) ==
    [shouldUpdate |-> TRUE, storeVersion |-> newAppV, other |-> SpreadCopy(inAppUpdateInfo)]

\* A mutant of NotNewerRecord: the reason is left out.
NotNewerRecordNoReason(curVersion, newAppV, toSemverConverter, versionCode, inAppUpdateInfo) ==
    [shouldUpdate |-> FALSE, storeVersion |-> newAppV, other |-> SpreadCopy(inAppUpdateInfo)]

\* A mutant of NotNewerRecord: the origin note is there only when the converted
\* value differs from the native one.
NotNewerRecordOriginWhenDiffers(curVersion, newAppV, toSemverConverter, versionCode, inAppUpdateInfo) ==
    [shouldUpdate |-> FALSE,
     storeVersion |-> newAppV,
     reason |-> [text |-> "is already later than the latest store version",
                 curVersion |-> curVersion,
                 storeVersion |-> newAppV,
                 origin |-> IF Truthy(toSemverConverter) /\ newAppV # versionCode
                            THEN <<versionCode>> ELSE <<>>],
     other |-> SpreadCopy(inAppUpdateInfo)]

\* The reason reads "current version (<cur>) is already later than the latest store
\* version (<new>[ - originated from <versionCode>])"; origin is <<versionCode>> when
\* the note is there and <<>> when it is not.
NotNewerRecord(curVersion, newAppV, toSemverConverter, versionCode, inAppUpdateInfo) ==
    [shouldUpdate |-> FALSE,
     storeVersion |-> newAppV,
     reason |-> [text |-> "is already later than the latest store version",
                 curVersion |-> curVersion,
                 storeVersion |-> newAppV,
                 origin |-> IF Truthy(toSemverConverter) THEN <<versionCode>> ELSE <<>>],
     other |-> SpreadCopy(inAppUpdateInfo)]

\* The reason reads "status: <updateAvailability> means there's no new version available".
NoUpdateRecord(updateAvailability, inAppUpdateInfo) ==
    [shouldUpdate |-> FALSE,
     reason |-> [text |-> "means there's no new version available",
                 status |-> updateAvailability],
     other |-> SpreadCopy(inAppUpdateInfo)]

HandlerResult(res, converterLog, comparatorLog) ==
    [threw |-> res.threw, value |-> res.value,
     converterLog |-> converterLog, comparatorLog |-> comparatorLog]

\* A mutant of thenHandler: the comparator is called with (curVersion, newAppV).
thenHandlerSwapsArguments(curVersion, toSemverConverter, customVersionComparator, inAppUpdateInfo) ==
    LET info == IF IsNullish(inAppUpdateInfo) THEN EmptyObject ELSE inAppUpdateInfo
        updateAvailability == Prop(info, "updateAvailability")
        versionCode == Prop(info, "versionCode")
        converted == Truthy(toSemverConverter)
        newAppV == IF converted THEN ApplyConverter(toSemverConverter, versionCode)
                   ELSE versionCode
        converterLog == IF converted THEN <<versionCode>> ELSE <<>>
        custom == Truthy(customVersionComparator)
        vComp == IF custom THEN ApplyComparator(customVersionComparator, curVersion, newAppV)
                 ELSE compareVersions(curVersion, newAppV)
        comparatorLog == <<[comparator |-> IF custom THEN "custom" ELSE "default",
                            args |-> <<curVersion, newAppV>>]>>
    IN  IF StatusIsAvailable(updateAvailability)
        THEN IF converted /\ ConversionFailed(newAppV)
             THEN HandlerResult(
                      Thrown(throwError(Message("Couldnt convert using your custom semver converter",
                                                versionCode), "checkNeedsUpdate")),
                      converterLog, <<>>)
             ELSE IF vComp.threw
             THEN HandlerResult(vComp, converterLog, comparatorLog)
             ELSE IF IsRemoteNewer(vComp.value)
             THEN HandlerResult(Returned(UpdateRecord(newAppV, inAppUpdateInfo)),
                                converterLog, comparatorLog)
             ELSE HandlerResult(
                      Returned(NotNewerRecord(curVersion, newAppV, toSemverConverter,
                                              versionCode, inAppUpdateInfo)),
                      converterLog, comparatorLog)
        ELSE HandlerResult(Returned(NoUpdateRecord(updateAvailability, inAppUpdateInfo)),
                           <<>>, <<>>)

\* The .then callback: what it returns or throws for the provider's answer, with
\* the converter and comparator calls it made.
thenHandler(curVersion, toSemverConverter, customVersionComparator, inAppUpdateInfo) ==
    LET info == IF IsNullish(inAppUpdateInfo) THEN EmptyObject ELSE inAppUpdateInfo
        updateAvailability == Prop(info, "updateAvailability")
        versionCode == Prop(info, "versionCode")
        converted == Truthy(toSemverConverter)
        newAppV == IF converted THEN ApplyConverter(toSemverConverter, versionCode)
                   ELSE versionCode
        converterLog == IF converted THEN <<versionCode>> ELSE <<>>
        custom == Truthy(customVersionComparator)
        vComp == IF custom THEN ApplyComparator(customVersionComparator, newAppV, curVersion)
                 ELSE compareVersions(newAppV, curVersion)
        comparatorLog == <<[comparator |-> IF custom THEN "custom" ELSE "default",
                            args |-> <<newAppV, curVersion>>]>>
    IN  IF StatusIsAvailable(updateAvailability)
        THEN IF converted /\ ConversionFailed(newAppV)
             THEN HandlerResult(
                      Thrown(throwError(Message("Couldnt convert using your custom semver converter",
                                                versionCode), "checkNeedsUpdate")),
                      converterLog, <<>>)
             ELSE IF vComp.threw
             THEN HandlerResult(vComp, converterLog, comparatorLog)
             ELSE IF IsRemoteNewer(vComp.value)
             THEN HandlerResult(Returned(UpdateRecord(newAppV, inAppUpdateInfo)),
                                converterLog, comparatorLog)
             ELSE HandlerResult(
                      Returned(NotNewerRecord(curVersion, newAppV, toSemverConverter,
                                              versionCode, inAppUpdateInfo)),
                      converterLog, comparatorLog)
        ELSE HandlerResult(Returned(NoUpdateRecord(updateAvailability, inAppUpdateInfo)),
                           <<>>, <<>>)

\* A mutant of catchHandler: the error is swallowed and the callback returns.
catchHandlerSwallows(err, scope) == Returned(Undefined)

\* The .catch callback: this.throwError(err, scope).
catchHandler(err, scope) == Thrown(throwError(err, scope))

\* How a promise followed by .catch(catchHandler) settles, from what came before it.
SettleThroughCatch(call, res, scope) ==
    LET final == IF res.threw THEN catchHandler(res.value, scope) ELSE res
    IN  [call EXCEPT !.state = IF final.threw THEN "rejected" ELSE "fulfilled",
                     !.outcome = final.value,
                     !.settled = @ + 1]

CheckOptionsOf(checkOptions) == IF Truthy(checkOptions) THEN checkOptions ELSE EmptyObject

checkNeedsUpdate(c, checkOptions) ==
    LET curVersion == Prop(CheckOptionsOf(checkOptions), "curVersion")
        started == [IdleCall EXCEPT !.op = "checkNeedsUpdate", !.options = checkOptions]
    IN  /\ calls[c].state = "idle"
        /\ calls' = [calls EXCEPT ![c] =
              IF MissingCurVersion(curVersion)
              THEN [started EXCEPT
                      !.state = "threw",
                      !.outcome = throwError(
                          Message("You have to include at least the curVersion", Undefined),
                          "checkNeedsUpdate")]
              ELSE [started EXCEPT
                      !.state = "pending",
                      !.providerLog = <<ProviderCall("checkNeedsUpdate", <<>>)>>]]
        /\ UNCHANGED <<statusUpdateListeners, resultListeners, streamEnabled, last>>

\* A mutant of ProviderResolvesCheck: the options are those of the invocation
\* that started last, as if they were kept on the instance.
ProviderResolvesCheckSharedOptions(c, inAppUpdateInfo) ==
    LET others == {d \in CallIds \ {c} : calls[d].op = "checkNeedsUpdate"}
        from == IF others = {} THEN c ELSE CHOOSE d \in others : TRUE
        opts == IF Truthy(calls[from].options) THEN calls[from].options ELSE EmptyObject
        res == thenHandler(Prop(opts, "curVersion"), Prop(opts, "toSemverConverter"),
                           Prop(opts, "customVersionComparator"), inAppUpdateInfo)
    IN  /\ calls[c].op = "checkNeedsUpdate"
        /\ calls[c].state = "pending"
        /\ calls' = [calls EXCEPT ![c] =
              [SettleThroughCatch(calls[c], res, "checkNeedsUpdate") EXCEPT
                  !.response = Returned(inAppUpdateInfo),
                  !.converterLog = res.converterLog,
                  !.comparatorLog = res.comparatorLog]]
        /\ UNCHANGED <<statusUpdateListeners, resultListeners, streamEnabled, last>>

\* SpInAppUpdates.checkNeedsUpdate() resolves with inAppUpdateInfo.
ProviderResolvesCheck(c, inAppUpdateInfo) ==
    LET opts == CheckOptionsOf(calls[c].options)
        res == thenHandler(Prop(opts, "curVersion"), Prop(opts, "toSemverConverter"),
                           Prop(opts, "customVersionComparator"), inAppUpdateInfo)
    IN  /\ calls[c].op = "checkNeedsUpdate"
        /\ calls[c].state = "pending"
        /\ calls' = [calls EXCEPT ![c] =
              [SettleThroughCatch(calls[c], res, "checkNeedsUpdate") EXCEPT
                  !.response = Returned(inAppUpdateInfo),
                  !.converterLog = res.converterLog,
                  !.comparatorLog = res.comparatorLog]]
        /\ UNCHANGED <<statusUpdateListeners, resultListeners, streamEnabled, last>>

\* A mutant of ProviderRejectsCheck: the provider is asked once more before the
\* call rejects.
ProviderRejectsCheckRetries(c, err) ==
    /\ calls[c].op = "checkNeedsUpdate"
    /\ calls[c].state = "pending"
    /\ calls' = [calls EXCEPT ![c] =
          [SettleThroughCatch(calls[c], Thrown(err), "checkNeedsUpdate") EXCEPT
              !.response = Thrown(err),
              !.providerLog = Append(@, ProviderCall("checkNeedsUpdate", <<>>))]]
    /\ UNCHANGED <<statusUpdateListeners, resultListeners, streamEnabled, last>>

\* SpInAppUpdates.checkNeedsUpdate() rejects with err.
ProviderRejectsCheck(c, err) ==
    /\ calls[c].op = "checkNeedsUpdate"
    /\ calls[c].state = "pending"
    /\ calls' = [calls EXCEPT ![c] =
          [SettleThroughCatch(calls[c], Thrown(err), "checkNeedsUpdate") EXCEPT
              !.response = Thrown(err)]]
    /\ UNCHANGED <<statusUpdateListeners, resultListeners, streamEnabled, last>>

-----------------------------------------------------------------------------
(* startUpdate *)

\* A mutant of InvalidUpdateType: every updateType is let through.
InvalidUpdateTypeUnchecked(updateType) == FALSE

InvalidUpdateType(updateType) ==
    updateType # UPDATE_TYPE.FLEXIBLE /\ updateType # UPDATE_TYPE.IMMEDIATE

startUpdate(c, updateOptions) ==
    LET updateType == Prop(CheckOptionsOf(updateOptions), "updateType")
        started == [IdleCall EXCEPT !.op = "startUpdate", !.options = updateOptions]
    IN  /\ calls[c].state = "idle"
        /\ calls' = [calls EXCEPT ![c] =
              IF InvalidUpdateType(updateType)
              THEN [started EXCEPT
                      !.state = "threw",
                      !.outcome = throwError(
                          Message("updateType should be one of FLEXIBLE or IMMEDIATE", updateType),
                          "startUpdate")]
              ELSE [started EXCEPT
                      !.state = "pending",
                      !.providerLog = <<ProviderCall("startUpdate", <<updateType>>)>>]]
        /\ UNCHANGED <<statusUpdateListeners, resultListeners, streamEnabled, last>>

\* SpInAppUpdates.startUpdate(updateType) resolves.
ProviderResolvesStart(c) ==
    /\ calls[c].op = "startUpdate"
    /\ calls[c].state = "pending"
    /\ calls' = [calls EXCEPT ![c] =
          [SettleThroughCatch(calls[c], Returned(Undefined), "startUpdate") EXCEPT
              !.response = Returned(Undefined)]]
    /\ UNCHANGED <<statusUpdateListeners, resultListeners, streamEnabled, last>>

\* SpInAppUpdates.startUpdate(updateType) rejects with err.
ProviderRejectsStart(c, err) ==
    /\ calls[c].op = "startUpdate"
    /\ calls[c].state = "pending"
    /\ calls' = [calls EXCEPT ![c] =
          [SettleThroughCatch(calls[c], Thrown(err), "startUpdate") EXCEPT
              !.response = Thrown(err)]]
    /\ UNCHANGED <<statusUpdateListeners, resultListeners, streamEnabled, last>>

-----------------------------------------------------------------------------
(* The listener registries of InAppUpdatesBase *)

\* A registry is the set of registered callbacks: the callback itself is the key.
addListener(listeners, callback) == listeners \cup {callback}
removeListener(listeners, callback) == listeners \ {callback}
hasListeners(listeners) == listeners # {}

\* emitEvent(event): what each callback receives, in order.
emitEvent(listeners, event) ==
    [cb \in Callbacks |-> IF cb \in listeners THEN <<event>> ELSE <<>>]

Bool(b) == [t |-> "boolean", b |-> b]

\* The last synchronous operation or incoming event: its name and argument, the
\* registries as they were before it, the provider calls it made, and what each
\* callback received from it.
NoOperation ==
    [op |-> "none", callback |-> 0, event |-> Undefined,
     statusBefore |-> {}, resultBefore |-> {},
     providerLog |-> <<>>, received |-> [cb \in Callbacks |-> <<>>]]

Operation(op) ==
    [NoOperation EXCEPT !.op = op,
                        !.statusBefore = statusUpdateListeners,
                        !.resultBefore = resultListeners]

-----------------------------------------------------------------------------
(* The event distribution core *)

\* The raw events the native emitter sends.  The byte counts come as strings
\* (a Java long), as numbers, or not at all.
RawByteInputs ==
    {Str(<<"1", "0", "2", "4">>), Str(<<"2", "0", "4", "8">>),
     Str(<<" ", "4", "2">>),
     Str(<<"1", "2", "a", "b", "c">>), Str(<<"a", "b", "c">>), Str(<<>>),
     Num(1024), Undefined}
EventStatusInputs == {UPDATE_STATUS.UPDATE_DOWNLOADING, UPDATE_STATUS.UPDATE_FAILED}
StatusEventInputs ==
    [status : EventStatusInputs,
     bytesDownloaded : RawByteInputs,
     totalBytesToDownload : RawByteInputs]
ResultEventInputs ==
    {[resultCode |-> Num(0)],
     [resultCode |-> Num(1), bytesDownloaded |-> Str(<<"1", "0", "2", "4">>)]}

\* { ...event, bytesDownloaded, totalBytesToDownload } with both counts parsed.
NormalizedStatusEvent(event) ==
    [k \in DOMAIN event \cup {"bytesDownloaded", "totalBytesToDownload"} |->
        IF k \in {"bytesDownloaded", "totalBytesToDownload"}
        THEN parseInt(Prop(event, k))
        ELSE event[k]]

\* A mutant of onIncomingNativeStatusUpdate: an event whose counts do not parse is dropped.
onIncomingNativeStatusUpdateDropsNaN(event) ==
    LET normalized == NormalizedStatusEvent(event)
        bad == NaN \in {normalized.bytesDownloaded, normalized.totalBytesToDownload}
    IN  /\ last' = [Operation("onIncomingNativeStatusUpdate") EXCEPT
                       !.event = event,
                       !.received = IF bad THEN NoOperation.received
                                    ELSE emitEvent(statusUpdateListeners, normalized)]
        /\ UNCHANGED <<calls, statusUpdateListeners, resultListeners, streamEnabled>>

\* A mutant of onIncomingNativeStatusUpdate: the event goes to the result listeners.
onIncomingNativeStatusUpdateToResultListeners(event) ==
    /\ last' = [Operation("onIncomingNativeStatusUpdate") EXCEPT
                   !.event = event,
                   !.received = emitEvent(resultListeners, NormalizedStatusEvent(event))]
    /\ UNCHANGED <<calls, statusUpdateListeners, resultListeners, streamEnabled>>

onIncomingNativeStatusUpdate(event) ==
    /\ last' = [Operation("onIncomingNativeStatusUpdate") EXCEPT
                   !.event = event,
                   !.received = emitEvent(statusUpdateListeners, NormalizedStatusEvent(event))]
    /\ UNCHANGED <<calls, statusUpdateListeners, resultListeners, streamEnabled>>

\* A mutant of onIncomingNativeResult: the result is normalized like a status update.
onIncomingNativeResultNormalized(event) ==
    /\ last' = [Operation("onIncomingNativeResult") EXCEPT
                   !.event = event,
                   !.received = emitEvent(resultListeners, NormalizedStatusEvent(event))]
    /\ UNCHANGED <<calls, statusUpdateListeners, resultListeners, streamEnabled>>

onIncomingNativeResult(event) ==
    /\ last' = [Operation("onIncomingNativeResult") EXCEPT
                   !.event = event,
                   !.received = emitEvent(resultListeners, event)]
    /\ UNCHANGED <<calls, statusUpdateListeners, resultListeners, streamEnabled>>

addStatusUpdateListener(callback) ==
    LET after == addListener(statusUpdateListeners, callback)
    IN  /\ statusUpdateListeners' = after
        /\ IF hasListeners(after)
           THEN /\ streamEnabled' = <<TRUE>>
                /\ last' = [Operation("addStatusUpdateListener") EXCEPT
                               !.callback = callback,
                               !.providerLog =
                                   <<ProviderCall("setStatusUpdateSubscription", <<Bool(TRUE)>>)>>]
           ELSE /\ streamEnabled' = streamEnabled
                /\ last' = [Operation("addStatusUpdateListener") EXCEPT !.callback = callback]
        /\ UNCHANGED <<calls, resultListeners>>

\* A mutant of removeStatusUpdateListener: the callback is taken out of the result registry.
removeStatusUpdateListenerFromResults(callback) ==
    LET after == removeListener(resultListeners, callback)
    IN  /\ resultListeners' = after
        /\ IF ~hasListeners(statusUpdateListeners)
           THEN /\ streamEnabled' = <<FALSE>>
                /\ last' = [Operation("removeStatusUpdateListener") EXCEPT
                               !.callback = callback,
                               !.providerLog =
                                   <<ProviderCall("setStatusUpdateSubscription", <<Bool(FALSE)>>)>>]
           ELSE /\ streamEnabled' = streamEnabled
                /\ last' = [Operation("removeStatusUpdateListener") EXCEPT !.callback = callback]
        /\ UNCHANGED <<calls, statusUpdateListeners>>

\* A mutant of removeStatusUpdateListener: the stream is disabled on every remove.
removeStatusUpdateListenerAlwaysDisables(callback) ==
    /\ statusUpdateListeners' = removeListener(statusUpdateListeners, callback)
    /\ streamEnabled' = <<FALSE>>
    /\ last' = [Operation("removeStatusUpdateListener") EXCEPT
                   !.callback = callback,
                   !.providerLog =
                       <<ProviderCall("setStatusUpdateSubscription", <<Bool(FALSE)>>)>>]
    /\ UNCHANGED <<calls, resultListeners>>

removeStatusUpdateListener(callback) ==
    LET after == removeListener(statusUpdateListeners, callback)
    IN  /\ statusUpdateListeners' = after
        /\ IF ~hasListeners(after)
           THEN /\ streamEnabled' = <<FALSE>>
                /\ last' = [Operation("removeStatusUpdateListener") EXCEPT
                               !.callback = callback,
                               !.providerLog =
                                   <<ProviderCall("setStatusUpdateSubscription", <<Bool(FALSE)>>)>>]
           ELSE /\ streamEnabled' = streamEnabled
                /\ last' = [Operation("removeStatusUpdateListener") EXCEPT !.callback = callback]
        /\ UNCHANGED <<calls, resultListeners>>

addIntentSelectionListener(callback) ==
    /\ resultListeners' = addListener(resultListeners, callback)
    /\ last' = [Operation("addIntentSelectionListener") EXCEPT !.callback = callback]
    /\ UNCHANGED <<calls, statusUpdateListeners, streamEnabled>>

\* A mutant of removeIntentSelectionListener: the status stream is disabled when
\* the last result listener goes.
removeIntentSelectionListenerToggles(callback) ==
    LET after == removeListener(resultListeners, callback)
    IN  /\ resultListeners' = after
        /\ IF ~hasListeners(after)
           THEN /\ streamEnabled' = <<FALSE>>
                /\ last' = [Operation("removeIntentSelectionListener") EXCEPT
                               !.callback = callback,
                               !.providerLog =
                                   <<ProviderCall("setStatusUpdateSubscription", <<Bool(FALSE)>>)>>]
           ELSE /\ streamEnabled' = streamEnabled
                /\ last' = [Operation("removeIntentSelectionListener") EXCEPT !.callback = callback]
        /\ UNCHANGED <<calls, statusUpdateListeners>>

removeIntentSelectionListener(callback) ==
    /\ resultListeners' = removeListener(resultListeners, callback)
    /\ last' = [Operation("removeIntentSelectionListener") EXCEPT !.callback = callback]
    /\ UNCHANGED <<calls, statusUpdateListeners, streamEnabled>>

installUpdate ==
    /\ last' = [Operation("installUpdate") EXCEPT
                   !.providerLog = <<ProviderCall("installUpdate", <<>>)>>]
    /\ UNCHANGED <<calls, statusUpdateListeners, resultListeners, streamEnabled>>

-----------------------------------------------------------------------------
(* Specifications *)

\* The calls made so far, as the claims speak of them: per callback the
\* addStatusUpdateListener calls since its last removeStatusUpdateListener and
\* the number of them that its last remove followed; whether either was called
\* at all; and the invocations that settled while another one was in flight.
\* The operations never read it.
NoHistory ==
    [adds |-> [cb \in Callbacks |-> 0],
     addsBeforeRemove |-> [cb \in Callbacks |-> 0],
     statusCalled |-> FALSE,
     overlapped |-> {}]

RecordAdd(cb) ==
    history' = [history EXCEPT
                   !.adds[cb] = IF @ < MaxAdds THEN @ + 1 ELSE @,
                   !.addsBeforeRemove[cb] = 0,
                   !.statusCalled = TRUE]

RecordRemove(cb) ==
    history' = [history EXCEPT
                   !.adds[cb] = 0,
                   !.addsBeforeRemove[cb] = history.adds[cb],
                   !.statusCalled = TRUE]

RecordSettled(c) ==
    history' = [history EXCEPT
                   !.overlapped =
                       IF \E d \in CallIds \ {c} : calls[d].state = "pending"
                       THEN @ \cup {c} ELSE @]

\* The state after construction: no invocation yet, both registries empty, the
\* status stream never set.
Init ==
    /\ calls = [c \in CallIds |-> IdleCall]
    /\ statusUpdateListeners = {}
    /\ resultListeners = {}
    /\ streamEnabled = <<>>
    /\ last = NoOperation
    /\ history = NoHistory

\* The decision engine: one invocation of checkNeedsUpdate (call 1) and one of
\* startUpdate (call 2), each settled by the provider.
NextDecision ==
    \/ \E o \in CheckOptionsInputs : checkNeedsUpdate(1, o) /\ UNCHANGED history
    \/ \E i \in AvailabilityInfoInputs : ProviderResolvesCheck(1, i) /\ UNCHANGED history
    \/ \E e \in ProviderErrorInputs : ProviderRejectsCheck(1, e) /\ UNCHANGED history
    \/ \E o \in StartOptionsInputs : startUpdate(2, o) /\ UNCHANGED history
    \/ ProviderResolvesStart(2) /\ UNCHANGED history
    \/ \E e \in ProviderErrorInputs : ProviderRejectsStart(2, e) /\ UNCHANGED history

\* The event distribution core, over every raw event.
NextEvents ==
    \/ \E cb \in Callbacks : addStatusUpdateListener(cb) /\ UNCHANGED history
    \/ \E cb \in Callbacks : removeStatusUpdateListener(cb) /\ UNCHANGED history
    \/ \E cb \in Callbacks : addIntentSelectionListener(cb) /\ UNCHANGED history
    \/ \E cb \in Callbacks : removeIntentSelectionListener(cb) /\ UNCHANGED history
    \/ \E e \in StatusEventInputs : onIncomingNativeStatusUpdate(e) /\ UNCHANGED history
    \/ \E e \in ResultEventInputs : onIncomingNativeResult(e) /\ UNCHANGED history
    \/ installUpdate /\ UNCHANGED history

\* A few inputs of each kind, for the specifications whose claims are about the
\* order of the calls and not about the values.
FewStatusEvents ==
    {[status |-> UPDATE_STATUS.UPDATE_DOWNLOADING,
      bytesDownloaded |-> Str(<<"1", "0", "2", "4">>),
      totalBytesToDownload |-> Str(<<"2", "0", "4", "8">>)],
     [status |-> UPDATE_STATUS.UPDATE_FAILED,
      bytesDownloaded |-> Str(<<"a", "b", "c">>),
      totalBytesToDownload |-> Undefined]}
FewCheckOptions ==
    {Undefined,
     [curVersion |-> Str(<<"1", ".", "0", ".", "0">>),
      toSemverConverter |-> Undefined,
      customVersionComparator |-> Undefined],
     [curVersion |-> Str(<<"1", ".", "2">>),
      toSemverConverter |-> Fn("codeToSemver"),
      customVersionComparator |-> Fn("byMajor")]}
FewAvailabilityInfos ==
    {[updateAvailability |-> UPDATE_STATUS.AVAILABLE, versionCode |-> Str(<<"2", ".", "0", ".", "0">>)],
     [updateAvailability |-> UPDATE_STATUS.AVAILABLE, versionCode |-> Num(2)],
     [updateAvailability |-> UPDATE_STATUS.UNAVAILABLE, versionCode |-> Num(1)]}
FewProviderErrors == {[t |-> "providerError", code |-> "E_NETWORK"]}
FewStartOptions ==
    {Undefined, [updateType |-> UPDATE_TYPE.FLEXIBLE], [updateType |-> UPDATE_TYPE.IMMEDIATE]}

\* The event distribution core with the calls recorded in history.
NextListeners ==
    \/ \E cb \in Callbacks : addStatusUpdateListener(cb) /\ RecordAdd(cb)
    \/ \E cb \in Callbacks : removeStatusUpdateListener(cb) /\ RecordRemove(cb)
    \/ \E cb \in Callbacks : addIntentSelectionListener(cb) /\ UNCHANGED history
    \/ \E cb \in Callbacks : removeIntentSelectionListener(cb) /\ UNCHANGED history
    \/ \E e \in FewStatusEvents : onIncomingNativeStatusUpdate(e) /\ UNCHANGED history
    \/ \E e \in ResultEventInputs : onIncomingNativeResult(e) /\ UNCHANGED history

\* Several checkNeedsUpdate invocations in flight at once, settled in any order.
NextConcurrent ==
    \/ \E c \in CallIds, o \in FewCheckOptions : checkNeedsUpdate(c, o) /\ UNCHANGED history
    \/ \E c \in CallIds, i \in FewAvailabilityInfos :
          ProviderResolvesCheck(c, i) /\ RecordSettled(c)
    \/ \E c \in CallIds, e \in FewProviderErrors :
          ProviderRejectsCheck(c, e) /\ RecordSettled(c)

\* Every public operation, with the provider's answers.
NextOperations ==
    \/ \E o \in FewCheckOptions : checkNeedsUpdate(1, o) /\ UNCHANGED history
    \/ \E i \in FewAvailabilityInfos : ProviderResolvesCheck(1, i) /\ UNCHANGED history
    \/ \E e \in FewProviderErrors : ProviderRejectsCheck(1, e) /\ UNCHANGED history
    \/ \E o \in FewStartOptions : startUpdate(2, o) /\ UNCHANGED history
    \/ ProviderResolvesStart(2) /\ UNCHANGED history
    \/ \E e \in FewProviderErrors : ProviderRejectsStart(2, e) /\ UNCHANGED history
    \/ \E cb \in Callbacks : addStatusUpdateListener(cb) /\ UNCHANGED history
    \/ \E cb \in Callbacks : removeStatusUpdateListener(cb) /\ UNCHANGED history
    \/ \E cb \in Callbacks : addIntentSelectionListener(cb) /\ UNCHANGED history
    \/ \E cb \in Callbacks : removeIntentSelectionListener(cb) /\ UNCHANGED history
    \/ installUpdate /\ UNCHANGED history

Next == NextDecision \/ NextEvents

SpecDecision == Init /\ [][NextDecision]_vars
SpecEvents == Init /\ [][NextEvents]_vars
SpecListeners == Init /\ [][NextListeners]_vars
SpecConcurrent == Init /\ [][NextConcurrent]_vars
SpecOperations == Init /\ [][NextOperations]_vars
Spec == Init /\ [][Next]_vars

-----------------------------------------------------------------------------
(* What the claims speak of *)

CheckCalls == {c \in CallIds : calls[c].op = "checkNeedsUpdate"}
\* The invocations whose provider query was answered with availability info.
AnsweredChecks == {c \in CheckCalls : calls[c].response # Undefined /\ ~calls[c].response.threw}
\* The invocations whose provider call failed.
FailedProviderCalls == {c \in CallIds : calls[c].response # Undefined /\ calls[c].response.threw}
DecidedChecks == {c \in CheckCalls : calls[c].state = "fulfilled"}

OptionsOfCall(c) == IF IsNullish(calls[c].options) THEN EmptyObject ELSE calls[c].options
CurVersionOf(c) == Prop(OptionsOfCall(c), "curVersion")
ConverterOf(c) == Prop(OptionsOfCall(c), "toSemverConverter")
ComparatorOf(c) == Prop(OptionsOfCall(c), "customVersionComparator")
InfoOf(c) == calls[c].response.value
StatusOf(c) == Prop(InfoOf(c), "updateAvailability")
VersionCodeOf(c) == Prop(InfoOf(c), "versionCode")

\* The remote version the comparison is made with, and the comparison's result.
RemoteVersionOf(c) ==
    IF ConverterOf(c) # Undefined THEN ApplyConverter(ConverterOf(c), VersionCodeOf(c))
    ELSE VersionCodeOf(c)
ComparisonOf(c) ==
    IF ComparatorOf(c) # Undefined
    THEN ApplyComparator(ComparatorOf(c), RemoteVersionOf(c), CurVersionOf(c))
    ELSE compareVersions(RemoteVersionOf(c), CurVersionOf(c))
StrictlyPositive(res) == ~res.threw /\ res.value.t = "number" /\ res.value.n >= 1

RECURSIVE RootCause(_)
RootCause(err) == IF IsTagged(err) /\ err.t = "error" THEN RootCause(err.cause) ELSE err

\* C1: a checkNeedsUpdate call that fulfils with a decision record has shouldUpdate
\* true exactly when the provider's status is AVAILABLE and the comparator, applied
\* to (remote version, curVersion), returned a strictly positive value.
C1_ShouldUpdateIffAvailableAndNewer ==
    \A c \in DecidedChecks :
        calls[c].outcome.shouldUpdate
            <=> (StatusOf(c) = UPDATE_STATUS.AVAILABLE /\ StrictlyPositive(ComparisonOf(c)))

\* An AVAILABLE answer compared by the default comparator and found newer.
C1_Witness ==
    \E c \in DecidedChecks :
        /\ StatusOf(c) = UPDATE_STATUS.AVAILABLE
        /\ ComparatorOf(c) = Undefined
        /\ calls[c].comparatorLog # <<>>
        /\ calls[c].outcome.shouldUpdate

\* C4: checkNeedsUpdate called without a curVersion (no options, curVersion absent
\* or empty) fails with an error of checkNeedsUpdate and has made no provider call.
C4_NoCurVersionNoProviderCall ==
    \A c \in CheckCalls :
        CurVersionOf(c) \in {Undefined, EmptyString}
            => /\ calls[c].state = "threw"
               /\ calls[c].outcome.t = "error"
               /\ calls[c].outcome.scope = "checkNeedsUpdate"
               /\ calls[c].providerLog = <<>>

C4_Witness ==
    \E c \in CheckCalls :
        /\ calls[c].options # Undefined
        /\ CurVersionOf(c) = EmptyString
        /\ calls[c].state = "threw"

\* C5: in every decision record checkNeedsUpdate returns, reason is there exactly
\* when shouldUpdate is false.
C5_ReasonIffNoUpdate ==
    \A c \in DecidedChecks :
        ("reason" \in DOMAIN calls[c].outcome) <=> ~calls[c].outcome.shouldUpdate

\* A record with a reason, from an AVAILABLE answer that is not newer.
C5_Witness ==
    \E c \in DecidedChecks :
        /\ "reason" \in DOMAIN calls[c].outcome
        /\ StatusOf(c) = UPDATE_STATUS.AVAILABLE
        /\ ~calls[c].outcome.shouldUpdate

\* C6: when the provider reports a status other than AVAILABLE, checkNeedsUpdate
\* fulfils with shouldUpdate false, the reason that the status means there is no
\* new version available, no storeVersion, other = the raw info, and neither the
\* converter nor a comparator has been called.
C6_OtherStatusNoComparison ==
    \A c \in AnsweredChecks :
        StatusOf(c) \in UpdateStatusValues \ {UPDATE_STATUS.AVAILABLE}
            => /\ calls[c].state = "fulfilled"
               /\ DOMAIN calls[c].outcome = {"shouldUpdate", "reason", "other"}
               /\ calls[c].outcome.shouldUpdate = FALSE
               /\ calls[c].outcome.reason.text = "means there's no new version available"
               /\ calls[c].outcome.reason.status = StatusOf(c)
               /\ calls[c].outcome.other = InfoOf(c)
               /\ calls[c].converterLog = <<>>
               /\ calls[c].comparatorLog = <<>>

\* A call with a converter and a custom comparator, answered DEVELOPER_TRIGGERED.
C6_Witness ==
    \E c \in AnsweredChecks :
        /\ StatusOf(c) = UPDATE_STATUS.DEVELOPER_TRIGGERED
        /\ ConverterOf(c) # Undefined
        /\ ComparatorOf(c) # Undefined
        /\ calls[c].state = "fulfilled"

\* C7: with status AVAILABLE and a converter that returns an empty value,
\* checkNeedsUpdate is rejected with an error that names the native version, never
\* fulfils, and no comparator has been called.
C7_EmptyConversionRejects ==
    \A c \in AnsweredChecks :
        (/\ StatusOf(c) = UPDATE_STATUS.AVAILABLE
         /\ ConverterOf(c) # Undefined
         /\ RemoteVersionOf(c) \in {Undefined, Null, NaN, EmptyString, Num(0)})
            => /\ calls[c].state = "rejected"
               /\ calls[c].outcome.t = "error"
               /\ calls[c].outcome.scope = "checkNeedsUpdate"
               /\ RootCause(calls[c].outcome).t = "message"
               /\ RootCause(calls[c].outcome).about = VersionCodeOf(c)
               /\ calls[c].comparatorLog = <<>>

\* The converter was called with the native version and returned "".
C7_Witness ==
    \E c \in AnsweredChecks :
        /\ StatusOf(c) = UPDATE_STATUS.AVAILABLE
        /\ ConverterOf(c) = Fn("codeToSemver")
        /\ calls[c].converterLog = <<VersionCodeOf(c)>>
        /\ RemoteVersionOf(c) = EmptyString
        /\ ComparatorOf(c) # Undefined
        /\ calls[c].state = "rejected"

\* C8: when the provider's query or startUpdate command fails, the call's promise
\* is rejected with an error tagged with the operation's name and carrying the
\* provider's error, and is not fulfilled; a promise whose provider call has
\* settled is settled exactly once.
C8_ProviderFailureRejects ==
    /\ \A c \in FailedProviderCalls :
          /\ calls[c].state = "rejected"
          /\ calls[c].outcome.t = "error"
          /\ calls[c].outcome.scope = calls[c].op
          /\ calls[c].outcome.cause = calls[c].response.value
    /\ \A c \in CallIds :
          /\ calls[c].response # Undefined
                => calls[c].settled = 1 /\ calls[c].state \in {"fulfilled", "rejected"}
          /\ calls[c].response = Undefined
                => calls[c].settled = 0 /\ calls[c].state \in {"idle", "threw", "pending"}

C8_Witness ==
    /\ \E c \in FailedProviderCalls : calls[c].op = "checkNeedsUpdate"
    /\ \E c \in FailedProviderCalls : calls[c].op = "startUpdate"

-----------------------------------------------------------------------------
(* The claims about the event distribution core *)

EnableStream == <<ProviderCall("setStatusUpdateSubscription", <<Bool(TRUE)>>)>>
DisableStream == <<ProviderCall("setStatusUpdateSubscription", <<Bool(FALSE)>>)>>
ByteFields == {"bytesDownloaded", "totalBytesToDownload"}

\* C2: addStatusUpdateListener makes exactly one setStatusUpdateSubscription(true)
\* call if and only if the status registry was empty before the call and is not
\* after it; any other add makes no provider call.
C2_EnableOnlyOnFirstListener ==
    last.op = "addStatusUpdateListener"
        => IF last.statusBefore = {} /\ statusUpdateListeners # {}
           THEN last.providerLog = EnableStream
           ELSE last.providerLog = <<>>

\* C3: removeStatusUpdateListener makes exactly one setStatusUpdateSubscription(false)
\* call if and only if the registry was not empty before the call and is empty
\* after it; any other remove makes no provider call.
C3_DisableOnlyOnLastListener ==
    last.op = "removeStatusUpdateListener"
        => IF last.statusBefore # {} /\ statusUpdateListeners = {}
           THEN last.providerLog = DisableStream
           ELSE last.providerLog = <<>>

\* A byte count as the provider sends it: a non-negative integer, as a number or
\* in decimal digits.
IsByteCount(v) ==
    \/ v.t = "number" /\ v.n >= 0
    \/ v.t = "string" /\ v.chars # <<>> /\ \A i \in DOMAIN v.chars : IsDigit(v.chars[i])
ByteCountValue(v) == IF v.t = "number" THEN v.n ELSE DigitsValue(v.chars)

StatusEventHandled == last.op = "onIncomingNativeStatusUpdate"
\* C9: every status event delivered to a status listener carries both byte counts
\* as integers and never as strings, whether the provider sent them as numbers or
\* in digits, and every other field as the provider sent it.
C9_ByteCountsDeliveredAsIntegers ==
    StatusEventHandled =>
        \A cb \in Callbacks : \A i \in DOMAIN last.received[cb] :
            LET delivered == last.received[cb][i]
            IN  /\ DOMAIN delivered = DOMAIN last.event \cup ByteFields
                /\ \A k \in DOMAIN last.event \ ByteFields : delivered[k] = last.event[k]
                /\ \A k \in ByteFields :
                      /\ delivered[k].t \in {"number", "NaN"}
                      /\ IsByteCount(last.event[k])
                            => delivered[k] = Num(ByteCountValue(last.event[k]))

\* The event of the specification's example, delivered to a listener.
C9_Witness ==
    /\ StatusEventHandled
    /\ last.event.bytesDownloaded = Str(<<"1", "0", "2", "4">>)
    /\ last.event.totalBytesToDownload = Str(<<"2", "0", "4", "8">>)
    /\ \E cb \in Callbacks :
          /\ Len(last.received[cb]) = 1
          /\ last.received[cb][1].bytesDownloaded = Num(1024)
          /\ last.received[cb][1].totalBytesToDownload = Num(2048)

\* A raw count that is not numeric: absent, or a string that is not an integer in
\* decimal digits (white space around it and a sign aside).
IsSignedDigits(s) ==
    LET body == IF s # <<>> /\ Head(s) \in {"-", "+"} THEN Tail(s) ELSE s
    IN  body # <<>> /\ \A i \in DOMAIN body : IsDigit(body[i])
IsMalformedCount(v) ==
    \/ v.t \in {"undefined", "null", "NaN"}
    \/ v.t = "string" /\ ~IsSignedDigits(TrimLeft(v.chars))

\* Whether, white space and one sign aside, the raw count starts with a digit.
StartsWithDigit(v) ==
    LET s == TrimLeft(JsToString(v))
        body == IF s # <<>> /\ Head(s) \in {"-", "+"} THEN Tail(s) ELSE s
    IN  body # <<>> /\ IsDigit(Head(body))

\* The integer the raw count's leading digits spell, with its sign.
LeadingInteger(v) ==
    LET s == TrimLeft(JsToString(v))
        negative == s # <<>> /\ Head(s) = "-"
        body == IF s # <<>> /\ Head(s) \in {"-", "+"} THEN Tail(s) ELSE s
        n == DigitsValue(DigitPrefix(body))
    IN  IF negative THEN -n ELSE n

\* The status event was handed to every registered listener once, and to no other,
\* with its status as sent.
DeliveredToEveryListener ==
    \A cb \in Callbacks :
        /\ Len(last.received[cb]) = (IF cb \in statusUpdateListeners THEN 1 ELSE 0)
        /\ \A i \in DOMAIN last.received[cb] :
              /\ DOMAIN last.received[cb][i] = DOMAIN last.event \cup ByteFields
              /\ \A k \in DOMAIN last.event \ ByteFields :
                    last.received[cb][i][k] = last.event[k]

\* C10 as stated: a raw status event with malformed byte counts is delivered to
\* every registered status listener with each malformed count as NaN and the
\* status and other fields intact.
C10_MalformedCountsBecomeNaN ==
    StatusEventHandled =>
        /\ DeliveredToEveryListener
        /\ \A cb \in Callbacks : \A i \in DOMAIN last.received[cb] : \A k \in ByteFields :
              IsMalformedCount(last.event[k]) => last.received[cb][i][k] = NaN

\* C10 as amended: the event is delivered to every registered status listener with
\* the status and other fields intact; a malformed count is NaN when, white space
\* and a sign aside, it does not start with a decimal digit, and the integer of its
\* leading digits when it does.
C10_MalformedCountsKeepLeadingDigits ==
    StatusEventHandled =>
        /\ DeliveredToEveryListener
        /\ \A cb \in Callbacks : \A i \in DOMAIN last.received[cb] : \A k \in ByteFields :
              IsMalformedCount(last.event[k]) =>
                  IF StartsWithDigit(last.event[k])
                  THEN last.received[cb][i][k] = Num(LeadingInteger(last.event[k]))
                  ELSE last.received[cb][i][k] = NaN

\* Two listeners received an event with one count that starts with digits and one
\* that does not.
C10_Witness ==
    /\ StatusEventHandled
    /\ last.event.bytesDownloaded = Str(<<"1", "2", "a", "b", "c">>)
    /\ last.event.totalBytesToDownload = Str(<<"a", "b", "c">>)
    /\ Cardinality(statusUpdateListeners) >= 2
    /\ \A cb \in statusUpdateListeners :
          /\ last.received[cb][1].bytesDownloaded = Num(12)
          /\ last.received[cb][1].totalBytesToDownload = NaN

-----------------------------------------------------------------------------
(* The claims about delivery *)

ResultEventHandled == last.op = "onIncomingNativeResult"

\* C11: a raw result event is delivered to every registered result listener as
\* the provider emitted it (byte fields not coerced, nothing normalized), whatever
\* the state of the status stream and of the status registry.
C11_ResultDeliveredVerbatim ==
    ResultEventHandled =>
        \A cb \in Callbacks :
            last.received[cb] = IF cb \in resultListeners THEN <<last.event>> ELSE <<>>

\* A result with a string byte count reached a result listener unchanged, with
\* the status stream disabled and no status listener.
C11_Witness ==
    /\ ResultEventHandled
    /\ \E cb \in resultListeners :
          /\ last.received[cb] = <<last.event>>
          /\ last.event.resultCode = Num(1)
          /\ last.received[cb][1].bytesDownloaded = Str(<<"1", "0", "2", "4">>)
    /\ statusUpdateListeners = {}
    /\ streamEnabled = <<FALSE>>

\* C12: each emission is delivered exactly once to each callback registered on
\* its channel and to no other callback; a callback registered twice receives
\* it once.
C12_DeliveredOncePerRegisteredCallback ==
    /\ StatusEventHandled =>
          \A cb \in Callbacks :
              /\ Len(last.received[cb]) = (IF cb \in statusUpdateListeners THEN 1 ELSE 0)
              /\ history.adds[cb] >= 1 => Len(last.received[cb]) = 1
              /\ history.adds[cb] = 0 => Len(last.received[cb]) = 0
    /\ ResultEventHandled =>
          \A cb \in Callbacks :
              Len(last.received[cb]) = (IF cb \in resultListeners THEN 1 ELSE 0)

\* A callback added twice received the status event once; another one, never
\* added to the status registry though a result listener, received nothing.
C12_Witness ==
    /\ StatusEventHandled
    /\ \E cb \in Callbacks : history.adds[cb] >= 2 /\ Len(last.received[cb]) = 1
    /\ \E cb \in resultListeners : history.adds[cb] = 0 /\ last.received[cb] = <<>>

\* C13: a status event the core receives after removeStatusUpdateListener(cb) has
\* returned is not delivered to cb, however often cb had been added before that
\* remove; and it is delivered to every callback added and not removed since.
C13_RemovedCallbackReceivesNothing ==
    [][last'.op = "onIncomingNativeStatusUpdate" =>
          \A cb \in Callbacks :
              /\ history.adds[cb] = 0 => last'.received[cb] = <<>>
              /\ history.adds[cb] >= 1 =>
                    /\ Len(last'.received[cb]) = 1
                    /\ last'.received[cb][1].status = last'.event.status]_vars

\* A callback added twice and removed once received nothing of the event that
\* followed, and a callback still registered received it.
C13_Witness ==
    /\ StatusEventHandled
    /\ \E cb \in Callbacks :
          /\ history.addsBeforeRemove[cb] >= 2
          /\ history.adds[cb] = 0
          /\ last.received[cb] = <<>>
    /\ \E cb \in Callbacks : history.adds[cb] >= 1 /\ Len(last.received[cb]) = 1

ResultListenerOperations == {"addIntentSelectionListener", "removeIntentSelectionListener"}

\* C19: adding or removing a result listener makes no provider call, leaves the
\* status stream as it was set and leaves the status registry unchanged.
C19_ResultListenersNeverToggle ==
    [][last'.op \in ResultListenerOperations =>
          /\ last'.providerLog = <<>>
          /\ streamEnabled' = streamEnabled
          /\ statusUpdateListeners' = statusUpdateListeners]_vars

\* The last result listener was removed while a status listener was registered
\* and the stream enabled.
C19_Witness ==
    /\ last.op = "removeIntentSelectionListener"
    /\ last.resultBefore # {}
    /\ resultListeners = {}
    /\ statusUpdateListeners # {}
    /\ streamEnabled = <<TRUE>>
    /\ last.providerLog = <<>>

\* C20: once addStatusUpdateListener or removeStatusUpdateListener has been
\* called, the value last passed to setStatusUpdateSubscription says whether the
\* status registry is non-empty.
C20_StreamEnabledIffListeners ==
    history.statusCalled => streamEnabled = <<statusUpdateListeners # {}>>

\* A remove that left a listener registered: the stream stays enabled.
C20_Witness ==
    /\ history.statusCalled
    /\ last.op = "removeStatusUpdateListener"
    /\ last.callback \in last.statusBefore
    /\ statusUpdateListeners # {}
    /\ streamEnabled = <<TRUE>>

-----------------------------------------------------------------------------
(* The claims about startUpdate and the provider calls *)

StartCalls == {c \in CallIds : calls[c].op = "startUpdate"}
UpdateTypeOf(c) == Prop(OptionsOfCall(c), "updateType")

\* C14: a startUpdate call whose updateType is neither IMMEDIATE nor FLEXIBLE
\* (missing options included) throws a startUpdate error and has made no provider
\* call; one with a valid updateType has called the provider's startUpdate exactly
\* once, with that updateType.
C14_InvalidUpdateTypeNeverReachesProvider ==
    \A c \in StartCalls :
        IF UpdateTypeOf(c) \in UpdateTypeValues
        THEN /\ calls[c].state # "threw"
             /\ calls[c].providerLog = <<ProviderCall("startUpdate", <<UpdateTypeOf(c)>>)>>
        ELSE /\ calls[c].state = "threw"
             /\ calls[c].providerLog = <<>>
             /\ calls[c].outcome.t = "error"
             /\ calls[c].outcome.scope = "startUpdate"

\* startUpdate was called without options and threw before any provider call.
C14_Witness ==
    \E c \in StartCalls :
        /\ calls[c].options = Undefined
        /\ calls[c].state = "threw"
        /\ calls[c].providerLog = <<>>

\* C15: no invocation of a public operation has made more than one provider
\* call, and an invocation whose provider call failed rejected after that one
\* call.
C15_AtMostOneProviderCall ==
    /\ Len(last.providerLog) <= 1
    /\ \A c \in CallIds :
          /\ Len(calls[c].providerLog) <= 1
          /\ calls[c].settled <= 1
          /\ c \in FailedProviderCalls =>
                /\ calls[c].state = "rejected"
                /\ Len(calls[c].providerLog) = 1

\* A checkNeedsUpdate whose provider call failed, with a listener operation that
\* made its one provider call.
C15_Witness ==
    /\ \E c \in CheckCalls \cap FailedProviderCalls :
          calls[c].state = "rejected" /\ Len(calls[c].providerLog) = 1
    /\ Len(last.providerLog) = 1

-----------------------------------------------------------------------------
(* The claims about the comparison *)

\* The decided invocations whose record says the remote version is not newer.
NotNewerChecks ==
    {c \in DecidedChecks :
        /\ "reason" \in DOMAIN calls[c].outcome
        /\ "storeVersion" \in DOMAIN calls[c].outcome}
HasOriginNote(c) == calls[c].outcome.reason.origin # <<>>

\* C16, as the specification states it: the not-newer record's reason has the
\* origin note exactly when a converter was used and the converted value differs
\* from the native value.
C16_OriginNoteOnlyWhenConversionDiffers ==
    \A c \in NotNewerChecks :
        HasOriginNote(c) <=>
            (ConverterOf(c) # Undefined /\ RemoteVersionOf(c) # VersionCodeOf(c))

\* C16, as the code has it: the not-newer record's reason has the origin note,
\* naming the native value, exactly when a converter was supplied, whether or not
\* the converted value differs from the native one.
C16_OriginNoteWheneverConverterSupplied ==
    \A c \in NotNewerChecks :
        calls[c].outcome.reason.origin =
            IF ConverterOf(c) # Undefined THEN <<VersionCodeOf(c)>> ELSE <<>>

\* A converter returned the native value unchanged and the note is there.
C16_Witness ==
    \E c \in NotNewerChecks :
        /\ ConverterOf(c) # Undefined
        /\ RemoteVersionOf(c) = VersionCodeOf(c)
        /\ HasOriginNote(c)

\* The answered invocations that came to the comparison.
ComparedChecks ==
    {c \in AnsweredChecks :
        /\ StatusOf(c) = UPDATE_STATUS.AVAILABLE
        /\ ~(ConverterOf(c) # Undefined /\ ~Truthy(RemoteVersionOf(c)))}

\* C18: an invocation that comes to the comparison calls exactly one comparator
\* exactly once: the custom one when it was supplied and the default one
\* otherwise, with (remote version after the optional conversion, curVersion) in
\* that order; and its record has shouldUpdate true exactly when that result is
\* strictly positive.
C18_CustomComparatorReplacesDefault ==
    \A c \in AnsweredChecks :
        /\ c \notin ComparedChecks => calls[c].comparatorLog = <<>>
        /\ c \in ComparedChecks =>
              /\ calls[c].comparatorLog =
                    <<[comparator |-> IF ComparatorOf(c) # Undefined THEN "custom" ELSE "default",
                       args |-> <<RemoteVersionOf(c), CurVersionOf(c)>>]>>
              /\ c \in DecidedChecks =>
                    (calls[c].outcome.shouldUpdate <=> StrictlyPositive(ComparisonOf(c)))

\* A custom comparator decided against the default: the remote version is newer
\* by the default order and the record says not to update.
C18_Witness ==
    \E c \in ComparedChecks \cap DecidedChecks :
        /\ ComparatorOf(c) # Undefined
        /\ calls[c].comparatorLog[1].comparator = "custom"
        /\ StrictlyPositive(compareVersions(RemoteVersionOf(c), CurVersionOf(c)))
        /\ ~calls[c].outcome.shouldUpdate

-----------------------------------------------------------------------------
(* The claim about invocations in flight together *)

\* The invocations of checkNeedsUpdate the provider has answered or failed.
SettledChecks == {c \in CheckCalls : calls[c].response # Undefined}

\* What an invocation that runs alone comes to, from its options and the
\* provider's response: how it settles and with what.
AloneOutcome(options, response) ==
    LET opts == IF Truthy(options) THEN options ELSE EmptyObject
        handled == thenHandler(Prop(opts, "curVersion"), Prop(opts, "toSemverConverter"),
                               Prop(opts, "customVersionComparator"), response.value)
    IN  IF response.threw
        THEN [state |-> "rejected", outcome |-> throwError(response.value, "checkNeedsUpdate")]
        ELSE IF handled.threw
        THEN [state |-> "rejected", outcome |-> throwError(handled.value, "checkNeedsUpdate")]
        ELSE [state |-> "fulfilled", outcome |-> handled.value]

\* C17: under every interleaving of the provider's responses, an invocation of
\* checkNeedsUpdate settles once, as it would alone with its own options and its
\* own response; so two invocations with equal options and equal responses come
\* to equal outcomes, whatever was in flight beside them.
C17_ConcurrentChecksIndependent ==
    /\ \A c \in SettledChecks :
          /\ calls[c].settled = 1
          /\ [state |-> calls[c].state, outcome |-> calls[c].outcome] =
                AloneOutcome(calls[c].options, calls[c].response)
    /\ \A c, d \in SettledChecks :
          (calls[c].options = calls[d].options /\ calls[c].response = calls[d].response)
              => calls[c].outcome = calls[d].outcome

\* Two invocations with different options were in flight together and got the
\* same answer: one fulfilled with a decision to update, the other rejected.
C17_Witness ==
    \E c, d \in SettledChecks :
        /\ c # d
        /\ d \in history.overlapped
        /\ calls[c].options # calls[d].options
        /\ calls[c].response = calls[d].response
        /\ ~calls[c].response.threw
        /\ {calls[c].state, calls[d].state} = {"fulfilled", "rejected"}
        /\ \E e \in {c, d} : calls[e].state = "fulfilled" /\ calls[e].outcome.shouldUpdate

====
